---- MODULE Spec2Model ----
(***************************************************************************)
(* A model of the tool-execution layer of VeCode-Agent:                    *)
(*   agent/utils.py          jail_path, match_any, atomic_write,           *)
(*                           backup_file                                   *)
(*   agent/tools/fs.py       FileSystemTool                                *)
(*   agent/tools/edit.py     EditTool                                      *)
(*   agent/tools/executor.py Executor.dispatch                             *)
(*                                                                         *)
(* Text is a sequence of characters, a character is a one-letter string.   *)
(* A path is the sequence of its components below "/", each component a    *)
(* text.  File content is a sequence of bytes; a byte is written as the    *)
(* ASCII character it encodes, or as two hex digits when it is >= 0x80.    *)
(* The file system holds no symbolic links, so Path.resolve() is the       *)
(* lexical normalisation of "." and "..".                                  *)
(***************************************************************************)
EXTENDS Integers, Sequences, FiniteSets, TLC

VARIABLES
    cfg,       \* AgentConfig: the fields the operations read
    fs,        \* the file system: existing absolute path -> directory or file
    now,       \* the wall clock second, as time.strftime renders it
    nops,      \* number of Dispatch calls made so far
    last,      \* the last Dispatch call: kind, arguments, outcome, storage steps
    pure,      \* the last evaluation of a pure helper: input and result
    names,     \* atomic_write under interleaving: directory entry -> inode
    inode,     \* atomic_write under interleaving: inode -> bytes
    wr,        \* atomic_write under interleaving: each writer's position
    prior,     \* atomic_write under interleaving: the target before any write
    term,      \* TerminalTool: the session table and the subprocesses spawned
    ctx        \* the calling contexts inside a TerminalTool method

vars == <<cfg, fs, now, nops, last, pure, names, inode, wr, prior, term, ctx>>

(***************************************************************************)
(* Text helpers                                                            *)
(***************************************************************************)
RECURSIVE Flatten(_)
Flatten(ss) == IF ss = <<>> THEN <<>> ELSE Head(ss) \o Flatten(Tail(ss))

\* str.startswith
startswith(s, prefix) ==
    /\ Len(s) >= Len(prefix)
    /\ SubSeq(s, 1, Len(prefix)) = prefix

\* The components of a path string: the pieces between "/", with the empty
\* pieces and the "." pieces dropped, as pathlib parses a string.
RECURSIVE SplitFrom(_, _, _)
SplitFrom(s, i, cur) ==
    IF i > Len(s)
    THEN IF cur = <<>> \/ cur = <<".">> THEN <<>> ELSE <<cur>>
    ELSE IF s[i] = "/"
         THEN (IF cur = <<>> \/ cur = <<".">> THEN <<>> ELSE <<cur>>)
              \o SplitFrom(s, i + 1, <<>>)
         ELSE SplitFrom(s, i + 1, Append(cur, s[i]))

parts(s) == SplitFrom(s, 1, <<>>)

is_absolute(s) == Len(s) > 0 /\ s[1] = "/"

\* root / p : an absolute right operand replaces the left one.
joinpath(root, p) == IF is_absolute(p) THEN parts(p) ELSE root \o parts(p)

\* Path.resolve() without symbolic links: ".." removes the component before
\* it and is dropped at "/".
RECURSIVE ResolveFrom(_, _)
ResolveFrom(comps, acc) ==
    IF comps = <<>> THEN acc
    ELSE IF Head(comps) = <<".", ".">>
         THEN ResolveFrom(Tail(comps),
                          IF acc = <<>> THEN <<>> ELSE SubSeq(acc, 1, Len(acc) - 1))
         ELSE ResolveFrom(Tail(comps), Append(acc, Head(comps)))

resolve(comps) == ResolveFrom(comps, <<>>)

\* str(path)
RECURSIVE StrFrom(_)
StrFrom(comps) ==
    IF comps = <<>> THEN <<>> ELSE <<"/">> \o Head(comps) \o StrFrom(Tail(comps))

str(path) == IF path = <<>> THEN <<"/">> ELSE StrFrom(path)

\* Path.parent and Path.name
parent(path) == IF path = <<>> THEN <<>> ELSE SubSeq(path, 1, Len(path) - 1)
name(path)   == IF path = <<>> THEN <<>> ELSE path[Len(path)]

\* q is p or lies below p, component by component
IsUnder(q, p) == Len(q) >= Len(p) /\ SubSeq(q, 1, Len(p)) = p

\* "/".join(comps)
RECURSIVE JoinSlash(_)
JoinSlash(comps) ==
    IF comps = <<>> THEN <<>>
    ELSE IF Len(comps) = 1 THEN Head(comps)
    ELSE Head(comps) \o <<"/">> \o JoinSlash(Tail(comps))

(***************************************************************************)
(* AgentConfig                                                             *)
(***************************************************************************)
project_root == << <<"p","r","o","j">> >>

\* AgentConfig.resolve: the default backup directory
backup_dir == Append(project_root, <<".","a","i","_","a","g","e","n","t","_","b","a","c","k","u","p","s">>)

allow_patterns == << <<"*","*","/","*">> >>

deny_patterns ==
    << <<".","g","i","t","/","*","*">>,
       <<"*","*","/",".","g","i","t","/","*","*">>,
       <<"*","*","/","n","o","d","e","_","m","o","d","u","l","e","s","/","*","*">>,
       <<".","e","n","v">>,
       <<"*","*","/",".","e","n","v","*">> >>

(***************************************************************************)
(* utils.py: jail_path, match_any                                          *)
(***************************************************************************)
\* jail_path returns the resolved path, or raises PermissionError("path
\* escapes jail"): ok = FALSE.
jail_path(root, p) ==
    LET pp == resolve(joinpath(root, p))
    IN  IF ~startswith(str(pp), str(root))
        THEN [ok |-> FALSE, path |-> <<>>]
        ELSE [ok |-> TRUE, path |-> pp]

\* fnmatch.fnmatch on a posix system: "*" matches any run of characters,
\* "/" included, "?" one character, anything else itself; the whole text
\* has to match.
RECURSIVE GlobFrom(_, _, _, _)
GlobFrom(s, i, pat, j) ==
    IF j > Len(pat) THEN i > Len(s)
    ELSE IF pat[j] = "*"
         THEN GlobFrom(s, i, pat, j + 1)
              \/ (i <= Len(s) /\ GlobFrom(s, i + 1, pat, j))
         ELSE /\ i <= Len(s)
              /\ (pat[j] = "?" \/ pat[j] = s[i])
              /\ GlobFrom(s, i + 1, pat, j + 1)

fnmatch(s, pat) == GlobFrom(s, 1, pat, 1)

match_any(path, patterns) ==
    \E k \in 1..Len(patterns) : fnmatch(str(path), patterns[k])

(***************************************************************************)
(* fs.py: FileSystemTool._allowed                                          *)
(***************************************************************************)
\* The mutant lets an allow match win over a deny match.
allowed_allow_wins(p, allow, deny) ==
    IF match_any(p, allow) THEN TRUE
    ELSE IF match_any(p, deny) THEN FALSE
    ELSE FALSE

allowed_with(p, allow, deny) ==
    IF ~match_any(p, allow) THEN FALSE
    ELSE IF match_any(p, deny) THEN FALSE
    ELSE TRUE

\* The relative paths the callers of the model pass.
RelA       == <<"a">>
RelEnv     == <<".", "e", "n", "v">>
RelSibling == <<".", ".", "/", "p", "r", "o", "j", "2", "/", "x">>
RelOutside == <<".", ".", "/", "o", "/", "s">>
RelDir     == <<"d">>
RelTmp     == <<"a", ".", "t", "m", "p">>

RelInputs == {RelA, RelEnv, RelSibling, RelOutside, RelDir, RelTmp}
DstInputs == {RelA, RelEnv, RelDir}

\* The policy's answer for the paths the inputs resolve to, worked out once.
PolicyTable ==
    [p \in {resolve(joinpath(project_root, r)) : r \in RelInputs} |->
        allowed_with(p, allow_patterns, deny_patterns)]

_allowed(p) ==
    IF p \in DOMAIN PolicyTable THEN PolicyTable[p]
    ELSE allowed_with(p, allow_patterns, deny_patterns)

(***************************************************************************)
(* The file system: a function from the existing absolute paths to nodes.  *)
(***************************************************************************)
Dir        == [t |-> "dir", data |-> <<>>]
File(b)    == [t |-> "file", data |-> b]
Absent     == [t |-> "absent", data |-> <<>>]

exists(f, p)  == p \in DOMAIN f
is_dir(f, p)  == exists(f, p) /\ f[p].t = "dir"
is_file(f, p) == exists(f, p) /\ f[p].t = "file"
Node(f, p)    == IF exists(f, p) THEN f[p] ELSE Absent

Put(f, p, n) == [q \in DOMAIN f \cup {p} |-> IF q = p THEN n ELSE f[q]]
Remove(f, ps) == [q \in DOMAIN f \ ps |-> f[q]]

Prefixes(p) == {SubSeq(p, 1, k) : k \in 0..Len(p)}

\* One storage step of an operation, in the order the code takes them.
Step(op, p, prev, data) == [op |-> op, path |-> p, prev |-> prev, data |-> data]

\* The outcome of a handler: the file system it leaves, its result and the
\* storage steps it took.
Out(f, r, st) == [fs |-> f, res |-> r, steps |-> st]

Ok        == [ok |-> TRUE, err |-> "", mode |-> "", content |-> <<>>]
Err(kind) == [ok |-> FALSE, err |-> kind, mode |-> "", content |-> <<>>]

\* Path.mkdir(parents=True, exist_ok=True): fails when the path or one of
\* its ancestors is a file, and then creates nothing.
mkdir_parents(f, p) ==
    IF \E q \in Prefixes(p) : is_file(f, q)
    THEN Out(f, Err("IOFailure"), <<>>)
    ELSE Out([q \in DOMAIN f \cup Prefixes(p) |-> IF exists(f, q) THEN f[q] ELSE Dir],
             Ok,
             IF exists(f, p) THEN <<>> ELSE <<Step("mkdir", p, Absent, <<>>)>>)

(***************************************************************************)
(* Text and bytes: str.encode("utf-8"), bytes.decode("utf-8"), bytes.hex() *)
(***************************************************************************)
EAcute == "U+00E9"

encode_char(c) == IF c = EAcute THEN <<"C3", "A9">> ELSE <<c>>

RECURSIVE encode(_)
encode(text) ==
    IF text = <<>> THEN <<>> ELSE encode_char(Head(text)) \o encode(Tail(text))

\* decode: ok = FALSE stands for UnicodeDecodeError
RECURSIVE decode(_)
decode(bytes) ==
    IF bytes = <<>> THEN [ok |-> TRUE, text |-> <<>>]
    ELSE IF Head(bytes) = "C3"
         THEN IF Len(bytes) >= 2 /\ bytes[2] = "A9"
              THEN LET r == decode(SubSeq(bytes, 3, Len(bytes)))
                   IN  [ok |-> r.ok, text |-> <<EAcute>> \o r.text]
              ELSE [ok |-> FALSE, text |-> <<>>]
         ELSE IF Head(bytes) = "A9"
              THEN [ok |-> FALSE, text |-> <<>>]
              ELSE LET r == decode(Tail(bytes))
                   IN  [ok |-> r.ok, text |-> <<Head(bytes)>> \o r.text]

hex_byte(b) ==
    CASE b = "C3" -> <<"c", "3">>
      [] b = "A9" -> <<"a", "9">>
      [] b = "h"  -> <<"6", "8">>
      [] b = "k"  -> <<"6", "b">>
      [] b = "s"  -> <<"7", "3">>
      [] b = "n"  -> <<"6", "e">>
      [] b = "o"  -> <<"6", "f">>
      [] b = "\n" -> <<"0", "a">>

RECURSIVE hex(_)
hex(bytes) == IF bytes = <<>> THEN <<>> ELSE hex_byte(Head(bytes)) \o hex(Tail(bytes))

(***************************************************************************)
(* utils.py: atomic_write, backup_file                                     *)
(***************************************************************************)
\* Path.suffix: from the last "." of the name, unless that "." leads or
\* ends the name.
RECURSIVE LastDot(_, _)
LastDot(nm, i) == IF i = 0 THEN 0 ELSE IF nm[i] = "." THEN i ELSE LastDot(nm, i - 1)

suffix(path) ==
    LET nm == name(path)
        i  == LastDot(nm, Len(nm))
    IN  IF i <= 1 \/ i = Len(nm) THEN <<>> ELSE SubSeq(nm, i, Len(nm))

with_suffix(path, sfx) ==
    LET nm   == name(path)
        stem == SubSeq(nm, 1, Len(nm) - Len(suffix(path)))
    IN  Append(parent(path), stem \o sfx)

\* The mutant names the target itself.
tmp_in_place(path) == path

tmp_of(path) == with_suffix(path, suffix(path) \o <<".", "t", "m", "p">>)

atomic_write(f, path, data) ==
    LET m   == mkdir_parents(f, parent(path))
        tmp == tmp_of(path)
    IN  IF ~m.res.ok THEN m
        ELSE IF is_dir(m.fs, tmp) THEN Out(m.fs, Err("IOFailure"), m.steps)
        ELSE LET f1 == Put(m.fs, tmp, File(data))
                 s1 == m.steps \o <<Step("open_w", tmp, Node(m.fs, tmp), data)>>
             IN  IF is_dir(f1, path)
                 THEN Out(f1, Err("IOFailure"), s1)
                 ELSE Out(Put(Remove(f1, {tmp}), path, File(data)), Ok,
                          s1 \o <<Step("replace", path, Node(f1, path), data)>>)

\* time.strftime("%Y%m%d-%H%M%S"): inside the modelled window only the
\* seconds digit changes; the part before it stands as one character.
strftime(t) == <<"20261103-12000", <<"0","1","2","3","4","5","6","7","8","9">>[t + 1]>>

\* hashlib.sha256(str(path)).hexdigest()[:8], taken to be injective: one
\* character that names the path string.
digest(path) == <<ToString(str(path))>>

backup_target(dir, t, path) ==
    Append(dir, name(path) \o <<".">> \o strftime(t) \o <<".">> \o digest(path)
                \o <<".", "b", "a", "k">>)

\* io = "backup" is an I/O failure of the copy (no space, no permission):
\* shutil.copy2 raises before the backup holds the bytes.
\* The mutant copies nothing and reports success.
backup_file_skipped(f, t, dir, path, io) == Out(f, Ok, <<>>)

backup_file(f, t, dir, path, io) ==
    LET target == backup_target(dir, t, path)
        m      == mkdir_parents(f, parent(target))
        failed == <<Step("backup_failed", target, Node(f, target), <<>>)>>
    IN  IF ~m.res.ok THEN Out(m.fs, m.res, failed)
        ELSE IF ~is_file(m.fs, path) \/ is_dir(m.fs, target) \/ io = "backup"
        THEN Out(m.fs, Err("IOFailure"), m.steps \o failed)
        ELSE Out(Put(m.fs, target, m.fs[path]), Ok,
                 m.steps \o <<Step("open_r", path, m.fs[path], <<>>),
                              Step("backup", target, Node(m.fs, target), m.fs[path].data)>>)

(***************************************************************************)
(* fs.py: FileSystemTool                                                   *)
(***************************************************************************)
\* _target: the jailed path, or PathEscape, or PermissionDenied when the
\* policy rejects it.
_target(rel) ==
    LET j == jail_path(project_root, rel)
    IN  IF ~j.ok THEN [ok |-> FALSE, err |-> "PathEscape", path |-> <<>>]
        ELSE IF ~_allowed(j.path)
        THEN [ok |-> FALSE, err |-> "PermissionDenied", path |-> <<>>]
        ELSE [ok |-> TRUE, err |-> "", path |-> j.path]

\* The length argument of read: given = FALSE is None.
NoLength == [given |-> FALSE, n |-> 0]
Length(n) == [given |-> TRUE, n |-> n]

Min(a, b) == IF a <= b THEN a ELSE b

\* The mutant stops one byte early.
read_bytes_short(bytes, start, n) ==
    IF start >= Len(bytes) THEN <<>>
    ELSE IF n < 0 THEN SubSeq(bytes, start + 1, Len(bytes))
    ELSE SubSeq(bytes, start + 1, Min(Len(bytes), start + n) - 1)

\* file.read(n) at offset start: a negative n reads to the end of the file.
read_bytes(bytes, start, n) ==
    IF start >= Len(bytes) THEN <<>>
    ELSE IF n < 0 THEN SubSeq(bytes, start + 1, Len(bytes))
    ELSE SubSeq(bytes, start + 1, Min(Len(bytes), start + n))

fs_read(c, f, rel, start, length) ==
    LET t == _target(rel)
    IN  IF ~t.ok THEN Out(f, Err(t.err), <<>>)
        ELSE IF ~is_file(f, t.path) THEN Out(f, Err("NotFound"), <<>>)
        ELSE IF start < 0
        THEN Out(f, Err("IOFailure"), <<Step("open_r", t.path, f[t.path], <<>>)>>)
        ELSE LET data == read_bytes(f[t.path].data, start,
                                    IF ~length.given THEN c.max_read_bytes
                                    ELSE Min(length.n, c.max_read_bytes))
                 d    == decode(data)
             IN  Out(f,
                     IF d.ok
                     THEN [ok |-> TRUE, err |-> "", mode |-> "text", content |-> d.text]
                     ELSE [ok |-> TRUE, err |-> "", mode |-> "bytes", content |-> hex(data)],
                     <<Step("open_r", t.path, f[t.path], data)>>)

\* The mutant goes on to write when the backup has failed.
fs_write_unchecked_backup(f, t, rel, content, backup, io) ==
    LET tg == _target(rel)
    IN  IF ~tg.ok THEN Out(f, Err(tg.err), <<>>)
        ELSE LET b == IF backup /\ exists(f, tg.path)
                      THEN backup_file(f, t, backup_dir, tg.path, io)
                      ELSE Out(f, Ok, <<>>)
                 w == atomic_write(b.fs, tg.path, encode(content))
             IN  Out(w.fs, w.res, b.steps \o w.steps)

fs_write(f, t, rel, content, backup, io) ==
    LET tg == _target(rel)
    IN  IF ~tg.ok THEN Out(f, Err(tg.err), <<>>)
        ELSE LET b == IF backup /\ exists(f, tg.path)
                      THEN backup_file(f, t, backup_dir, tg.path, io)
                      ELSE Out(f, Ok, <<>>)
             IN  IF ~b.res.ok THEN b
                 ELSE LET w == atomic_write(b.fs, tg.path, encode(content))
                      IN  Out(w.fs, w.res, b.steps \o w.steps)

fs_create_dir(f, rel) ==
    LET tg == _target(rel)
    IN  IF ~tg.ok THEN Out(f, Err(tg.err), <<>>)
        ELSE mkdir_parents(f, tg.path)

Below(f, p) == {q \in DOMAIN f : IsUnder(q, p)}

fs_delete(f, rel) ==
    LET tg == _target(rel)
    IN  IF ~tg.ok THEN Out(f, Err(tg.err), <<>>)
        ELSE IF is_dir(f, tg.path)
        THEN Out(Remove(f, Below(f, tg.path)), Ok, <<Step("rmtree", tg.path, Dir, <<>>)>>)
        ELSE IF exists(f, tg.path)
        THEN Out(Remove(f, {tg.path}), Ok, <<Step("unlink", tg.path, f[tg.path], <<>>)>>)
        ELSE Out(f, Ok, <<>>)

\* shutil.move(s, d): into d when d is a directory, else onto d.
shutil_move(f, s, d) ==
    LET into == is_dir(f, d) /\ d # s
        real == IF into THEN Append(d, name(s)) ELSE d
    IN  IF ~exists(f, s) THEN Out(f, Err("NotFound"), <<>>)
        ELSE IF into /\ exists(f, real) THEN Out(f, Err("IOFailure"), <<>>)
        ELSE IF real = s THEN Out(f, Ok, <<>>)
        ELSE IF is_dir(f, s) /\ (IsUnder(real, s) \/ exists(f, real))
        THEN Out(f, Err("IOFailure"), <<>>)
        ELSE LET moved == Below(f, s)
                 rest  == Remove(f, moved)
                 dest(q) == real \o SubSeq(q, Len(s) + 1, Len(q))
             IN  Out([q \in DOMAIN rest \cup {dest(m) : m \in moved} |->
                        IF \E m \in moved : dest(m) = q
                        THEN f[CHOOSE m \in moved : dest(m) = q]
                        ELSE rest[q]],
                     Ok,
                     <<Step("replace", real, Node(f, real), f[s].data)>>)

fs_move(f, src, dst) ==
    LET s == _target(src)
    IN  IF ~s.ok THEN Out(f, Err(s.err), <<>>)
        ELSE LET d == _target(dst)
             IN  IF ~d.ok THEN Out(f, Err(d.err), <<>>)
                 ELSE LET m == mkdir_parents(f, parent(d.path))
                      IN  IF ~m.res.ok THEN m
                          ELSE LET r == shutil_move(m.fs, s.path, d.path)
                               IN  Out(r.fs, r.res, m.steps \o r.steps)

\* The mutant prunes one level early.
beyond_at_limit(dirpath, base, max_depth) == Len(dirpath) - Len(base) >= max_depth

\* len(Path(dirpath).relative_to(base).parts) > max_depth
beyond(dirpath, base, max_depth) == Len(dirpath) - Len(base) > max_depth

\* dirnames and filenames of one directory
children(f, d) == {q \in DOMAIN f : Len(q) = Len(d) + 1 /\ SubSeq(q, 1, Len(d)) = d}

\* os.walk(base), top down, with the loop body's pruning: the directories
\* it yields and the children the loop body goes through.
RECURSIVE walk(_, _, _, _)
walk(f, base, dirpath, max_depth) ==
    IF beyond(dirpath, base, max_depth)
    THEN [scanned |-> {dirpath}, listed |-> {}]
    ELSE LET subs == {walk(f, base, c, max_depth) :
                         c \in {q \in children(f, dirpath) : is_dir(f, q)}}
         IN  [scanned |-> {dirpath} \cup UNION {w.scanned : w \in subs},
              listed  |-> children(f, dirpath) \cup UNION {w.listed : w \in subs}]

\* Code point order of the characters that occur in names; a timestamp
\* stands with its first digit, a digest with a hex digit.
Alphabet ==
    <<"-", ".", "/", "0", "1", "2", "3", "4", "5", "6", "7", "8", "9", "_",
      "a", "b", "c", "d", "e", "f", "g", "h", "i", "j", "k", "l", "m", "n", "o",
      "p", "q", "r", "s", "t", "u", "v", "w", "x", "y", "z">>

index(c) == CHOOSE i \in 1..Len(Alphabet) : Alphabet[i] = c

ord(c) ==
    IF \E i \in 1..Len(Alphabet) : Alphabet[i] = c THEN index(c)
    ELSE IF c = strftime(0)[1] THEN index("2") ELSE index("0")

\* s <= t as Python compares strings
RECURSIVE str_le(_, _)
str_le(s, t) ==
    IF s = <<>> THEN TRUE
    ELSE IF t = <<>> THEN FALSE
    ELSE IF ord(Head(s)) # ord(Head(t)) THEN ord(Head(s)) < ord(Head(t))
    ELSE str_le(Tail(s), Tail(t))

\* the sort key (x["type"], x["path"])
key_le(x, y) ==
    IF x.type # y.type THEN str_le(x.type, y.type) ELSE str_le(x.path, y.path)

RECURSIVE sorted(_)
sorted(S) ==
    IF S = {} THEN <<>>
    ELSE LET x == CHOOSE e \in S : \A o \in S : key_le(e, o)
         IN  <<x>> \o sorted(S \ {x})

\* The directories os.walk reads, as storage steps
RECURSIVE scandirs(_)
scandirs(S) ==
    IF S = {} THEN <<>>
    ELSE LET d == CHOOSE e \in S : \A o \in S : str_le(str(e), str(o))
         IN  <<Step("scandir", d, Dir, <<>>)>> \o scandirs(S \ {d})

TypeDir  == <<"d", "i", "r">>
TypeFile == <<"f", "i", "l", "e">>

\* One entry of the listing: str(p.relative_to(root)) and the type
entry(f, p) ==
    [path |-> JoinSlash(SubSeq(p, Len(project_root) + 1, Len(p))),
     type |-> IF is_dir(f, p) THEN TypeDir ELSE TypeFile]

\* tree under the given policy: relative_to raises ValueError on the first
\* permitted entry that is not below the root.
fs_tree_with(f, rel, max_depth, allow, deny) ==
    LET j == jail_path(project_root, rel)
    IN  IF ~j.ok THEN Out(f, Err("PathEscape"), <<>>)
        ELSE LET w    == IF is_dir(f, j.path)
                         THEN walk(f, j.path, j.path, max_depth)
                         ELSE [scanned |-> {}, listed |-> {}]
                 kept == {p \in w.listed : allowed_with(p, allow, deny)}
                 st   == scandirs(w.scanned)
             IN  IF \E p \in kept : ~IsUnder(p, project_root)
                 THEN Out(f, Err("InvalidArguments"), st)
                 ELSE Out(f,
                          [ok |-> TRUE, err |-> "", mode |-> "tree",
                           content |-> sorted({entry(f, p) : p \in kept})],
                          st)

fs_tree(f, rel, max_depth) == fs_tree_with(f, rel, max_depth, allow_patterns, deny_patterns)

(***************************************************************************)
(* edit.py: EditTool                                                       *)
(***************************************************************************)
\* io.StringIO(text).readlines(): the lines, each with its "\n"
RECURSIVE LinesFrom(_, _, _)
LinesFrom(text, i, cur) ==
    IF i > Len(text) THEN (IF cur = <<>> THEN <<>> ELSE <<cur>>)
    ELSE IF text[i] = "\n"
         THEN <<Append(cur, "\n")>> \o LinesFrom(text, i + 1, <<>>)
         ELSE LinesFrom(text, i + 1, Append(cur, text[i]))

readlines(text) == LinesFrom(text, 1, <<>>)

Whitespace == {" ", "\n", "\t", "\r"}

\* The mutant takes no diff text for blank.
never_blank(text) == FALSE

\* not diff_text or not diff_text.strip()
is_blank(text) == \A i \in 1..Len(text) : text[i] \in Whitespace

NoNewline == <<"\\", " ", "N", "o", " ", "n", "e", "w", "l", "i", "n", "e">>

\* What one line of the diff contributes to the rebuilt content: nothing or
\* one line.
classify(l) ==
    IF startswith(l, <<"@", "@">>) THEN <<>>
    ELSE IF startswith(l, <<"+">>) /\ ~startswith(l, <<"+", "+", "+">>)
    THEN <<Tail(l)>>
    ELSE IF startswith(l, <<"-">>) /\ ~startswith(l, <<"-", "-", "-">>)
    THEN <<>>
    ELSE IF startswith(l, NoNewline) THEN <<>>
    ELSE IF startswith(l, <<"-", "-", "-">>) \/ startswith(l, <<"+", "+", "+">>)
    THEN <<>>
    ELSE IF startswith(l, <<" ">>) THEN <<Tail(l)>> ELSE <<l>>

RECURSIVE rebuild(_)
rebuild(ls) == IF ls = <<>> THEN <<>> ELSE classify(Head(ls)) \o rebuild(Tail(ls))

\* Index of the first line that starts a hunk, 0 when there is none.
RECURSIVE FirstHunk(_, _)
FirstHunk(ls, i) ==
    IF i > Len(ls) THEN 0
    ELSE IF startswith(ls[i], <<"@", "@">>) THEN i ELSE FirstHunk(ls, i + 1)

\* The mutant patches positionally: the old lines stay in front of what the
\* diff gives.
_patch_positional(old_lines, diff_text) ==
    [ok |-> TRUE, lines |-> old_lines \o rebuild(readlines(diff_text))]

\* _patch: ok = FALSE is the None it returns on a diff it cannot use.
_patch(old_lines, diff_text) ==
    IF is_blank(diff_text) THEN [ok |-> FALSE, lines |-> <<>>]
    ELSE LET ls == readlines(diff_text)
             h  == FirstHunk(ls, 1)
         IN  IF h = 0
             THEN LET new == rebuild(ls)
                  IN  IF new = <<>> THEN [ok |-> FALSE, lines |-> <<>>]
                      ELSE [ok |-> TRUE, lines |-> new]
             ELSE [ok |-> TRUE, lines |-> rebuild(SubSeq(ls, h, Len(ls)))]

\* bytes.decode("utf-8", errors="ignore")
RECURSIVE decode_ignore(_)
decode_ignore(bytes) ==
    IF bytes = <<>> THEN <<>>
    ELSE IF Head(bytes) = "C3" /\ Len(bytes) >= 2 /\ bytes[2] = "A9"
         THEN <<EAcute>> \o decode_ignore(SubSeq(bytes, 3, Len(bytes)))
         ELSE IF Head(bytes) \in {"C3", "A9"}
              THEN decode_ignore(Tail(bytes))
              ELSE <<Head(bytes)>> \o decode_ignore(Tail(bytes))

\* apply_unified_diff: every exception is turned into {"ok": False}.
apply_unified_diff(f, t, filename, diff_text, io) ==
    LET target == resolve(joinpath(project_root, filename))
    IN  IF ~startswith(str(target), str(project_root))
        THEN Out(f, Err("PathEscape"), <<>>)
        ELSE IF is_dir(f, target) THEN Out(f, Err("IOFailure"), <<>>)
        ELSE LET rd == IF exists(f, target)
                       THEN <<Step("open_r", target, f[target], f[target].data)>>
                       ELSE <<>>
                 old_lines == IF exists(f, target)
                              THEN readlines(decode_ignore(f[target].data))
                              ELSE <<>>
                 patched == _patch(old_lines, diff_text)
             IN  IF ~patched.ok THEN Out(f, Err("ParseError"), rd)
                 ELSE LET b == IF exists(f, target)
                               THEN backup_file(f, t, backup_dir, target, io)
                               ELSE Out(f, Ok, <<>>)
                      IN  IF ~b.res.ok THEN Out(b.fs, b.res, rd \o b.steps)
                          ELSE LET w == atomic_write(b.fs, target,
                                                     encode(Flatten(patched.lines)))
                               IN  Out(w.fs, w.res, rd \o b.steps \o w.steps)

\* suggest_and_apply: diff is what the text-generation function returns for
\* the text it is handed.
suggest_and_apply(f, t, filename, diff, io) ==
    LET path == resolve(joinpath(project_root, filename))
    IN  IF is_dir(f, path) THEN Out(f, Err("IOFailure"), <<>>)
        ELSE LET rd == IF exists(f, path)
                       THEN <<Step("open_r", path, f[path], f[path].data)>>
                       ELSE <<>>
                 text == IF exists(f, path) THEN decode_ignore(f[path].data) ELSE <<>>
                 a == apply_unified_diff(f, t, filename, diff, io)
             IN  Out(a.fs, a.res,
                     rd \o <<Step("generate", path, Absent, text)>> \o a.steps)

(***************************************************************************)
(* terminal.py: ShellSession, TerminalTool                                 *)
(***************************************************************************)
\* A subprocess with its pipes and the queue of its session.  A line is
\* <<pid, k>>: the k-th line the subprocess pid has emitted.  emitted and
\* got keep what it has emitted and what read has returned so far.
NewProc(id) ==
    [id |-> id, alive |-> TRUE, stdin |-> <<>>, out |-> <<>>, q |-> <<>>,
     emitted |-> <<>>, got |-> <<>>]

\* TerminalTool.__init__: no session; closed keeps the ids that close()
\* has removed and that were not opened again.
NoTerm == [sessions |-> <<>>, procs |-> <<>>, closed |-> {}]

\* ShellSession.__init__: Popen, a new queue, the reader thread
spawn(tm, id) == [tm EXCEPT !.procs = Append(@, NewProc(id))]

\* self.sessions[session_id] = s
insert(tm, id, pid) ==
    [tm EXCEPT !.sessions = [k \in DOMAIN tm.sessions \cup {id} |->
                                IF k = id THEN pid ELSE tm.sessions[k]],
               !.closed = @ \ {id}]

\* The mutant leaves the session in the table.
pop_kept(sessions, id) == sessions

\* self.sessions.pop(session_id, None)
pop(sessions, id) == [k \in DOMAIN sessions \ {id} |-> sessions[k]]

\* ShellSession.send: proc and proc.stdin are never reset, so the guard of
\* line 30 never raises; the write to a subprocess that has exited raises
\* BrokenPipeError.
send(tm, pid, cmd) ==
    IF tm.procs[pid].alive
    THEN [ok |-> TRUE, tm |-> [tm EXCEPT !.procs[pid].stdin = Append(@, cmd)]]
    ELSE [ok |-> FALSE, tm |-> tm]

\* The mutant is a queue of one slot.
q_full_at_one(q) == Len(q) >= 1

\* queue.Queue() has no maxsize: it is never full.
q_full(q) == FALSE

\* The mutant puts the line before the buffered ones.
q_put_front(q, line) == <<line>> \o q

\* queue.Queue.put
q_put(q, line) == Append(q, line)

\* The mutant goes on until it has max_lines lines.
returns_when_full(q, lines, max_lines) == Len(lines) >= max_lines

\* the while condition of ShellSession.read is false
returns_now(q, lines, max_lines) == q = <<>> \/ Len(lines) >= max_lines

\* ShellSession.read with nothing else running: the lines and the queue left
RECURSIVE shell_read(_, _, _)
shell_read(q, lines, max_lines) ==
    IF returns_now(q, lines, max_lines) THEN [lines |-> lines, q |-> q]
    ELSE shell_read(Tail(q), Append(lines, Head(q)), max_lines)

MaxLines == 2    \* max_lines of ShellSession.read, 400 by default

Contexts == {1, 2}

\* A calling context: where it is in the method it runs, and the result
\* of the last method it has completed.
NoResult == [op |-> "", id |-> <<>>, ok |-> TRUE, output |-> <<>>,
             closed |-> FALSE, stale |-> FALSE, fresh |-> FALSE]

IdleCtx == [pc |-> "idle", op |-> "", id |-> <<>>, cmd |-> <<>>, s |-> 0,
            lines |-> <<>>, closed |-> FALSE, stale |-> FALSE, fresh |-> FALSE,
            res |-> NoResult]

CmdLs   == <<"l", "s">>
CmdExit == <<"e", "x", "i", "t">>

TermOut(tm, r) == [term |-> tm, res |-> r]

term_open(c, tm, id) ==
    IF ~c.allow_shell THEN TermOut(tm, Err("PermissionDenied"))
    ELSE IF id \in DOMAIN tm.sessions THEN TermOut(tm, Ok)
    ELSE TermOut(insert(spawn(tm, id), id, Len(tm.procs) + 1), Ok)

term_exec(tm, id, cmd) ==
    LET t1 == IF id \in DOMAIN tm.sessions THEN tm
              ELSE insert(spawn(tm, id), id, Len(tm.procs) + 1)
        s  == send(t1, t1.sessions[id], cmd)
    IN  TermOut(s.tm, IF s.ok THEN Ok ELSE Err("ProcessFailure"))

term_read(tm, id, max_lines) ==
    IF id \notin DOMAIN tm.sessions
    THEN TermOut(tm, [ok |-> TRUE, err |-> "", mode |-> "output", content |-> <<>>])
    ELSE LET pid == tm.sessions[id]
             r   == shell_read(tm.procs[pid].q, <<>>, max_lines)
         IN  TermOut([tm EXCEPT !.procs[pid].q = r.q,
                                !.procs[pid].got = @ \o r.lines],
                     [ok |-> TRUE, err |-> "", mode |-> "output", content |-> r.lines])

\* ShellSession.close: "exit" is sent and the subprocess terminated when it
\* is still running.
shell_close(tm, pid) ==
    IF tm.procs[pid].alive
    THEN [tm EXCEPT !.procs[pid].stdin = Append(@, CmdExit), !.procs[pid].alive = FALSE]
    ELSE tm

term_close(tm, id) ==
    IF id \notin DOMAIN tm.sessions THEN TermOut(tm, Ok)
    ELSE TermOut([shell_close(tm, tm.sessions[id]) EXCEPT
                     !.sessions = pop(tm.sessions, id),
                     !.closed = @ \cup {id}],
                 Ok)

(***************************************************************************)
(* executor.py: Executor.dispatch                                          *)
(***************************************************************************)
NoArgs ==
    [rel |-> <<>>, dst |-> <<>>, content |-> <<>>, backup |-> TRUE,
     start |-> 0, length |-> NoLength, diff |-> <<>>, max_depth |-> 6,
     session_id |-> <<>>, command |-> <<>>]

\* What a bound call leaves: the file system, the session table, the
\* result and the storage steps
OfFs(o, tm)  == [fs |-> o.fs, term |-> tm, res |-> o.res, steps |-> o.steps]
OfTerm(o, f) == [fs |-> f, term |-> o.term, res |-> o.res, steps |-> <<>>]

\* The mutant binds every other kind to fs.delete.
dispatch_any_kind(kind, c, f, tm, t, a, io) ==
    IF kind = "fs.read" THEN OfFs(fs_read(c, f, a.rel, a.start, a.length), tm)
    ELSE OfFs(fs_delete(f, a.rel), tm)

\* dispatch(kind, args) on file system f and session table tm at second t
\* under config c; io and a.diff of edit.suggest are the environment's part
\* of the call.
dispatch(kind, c, f, tm, t, a, io) ==
    CASE kind = "fs.tree"       -> OfFs(fs_tree(f, a.rel, a.max_depth), tm)
      [] kind = "fs.read"       -> OfFs(fs_read(c, f, a.rel, a.start, a.length), tm)
      [] kind = "fs.write"      -> OfFs(fs_write(f, t, a.rel, a.content, a.backup, io), tm)
      [] kind = "fs.create_dir" -> OfFs(fs_create_dir(f, a.rel), tm)
      [] kind = "fs.delete"     -> OfFs(fs_delete(f, a.rel), tm)
      [] kind = "fs.move"       -> OfFs(fs_move(f, a.rel, a.dst), tm)
      [] kind = "term.open"     -> OfTerm(term_open(c, tm, a.session_id), f)
      [] kind = "term.exec"     -> OfTerm(term_exec(tm, a.session_id, a.command), f)
      [] kind = "term.read"     -> OfTerm(term_read(tm, a.session_id, MaxLines), f)
      [] kind = "edit.apply"    -> OfFs(apply_unified_diff(f, t, a.rel, a.diff, io), tm)
      [] kind = "edit.suggest"  -> OfFs(suggest_and_apply(f, t, a.rel, a.diff, io), tm)
      [] OTHER                  -> OfFs(Out(f, Err("UnknownOperation"), <<>>), tm)

(***************************************************************************)
(* Bounds and inputs                                                       *)
(***************************************************************************)
MaxOps  == 2    \* Dispatch calls in one behaviour
MaxTime == 1    \* seconds the clock may advance
MaxRead == 2    \* the configured max_read_bytes

ContentInputs == {<<"h">>, <<"h", EAcute>>}
DiffInputs    == {<<>>, <<"+", "n", "\n">>}
IoInputs      == {"none", "backup"}

PathA       == Append(project_root, <<"a">>)
PathEnv     == Append(project_root, <<".", "e", "n", "v">>)
PathDir     == Append(project_root, <<"d">>)
PathSibling == << <<"p", "r", "o", "j", "2">>, <<"x">> >>
PathOutside == << <<"o">>, <<"s">> >>

InitialTree ==
    [q \in {<<>>, project_root, backup_dir, PathA, PathEnv, PathDir,
            parent(PathSibling), PathSibling, parent(PathOutside), PathOutside} |->
        CASE q = PathA       -> File(<<"o">>)
          [] q = PathEnv     -> File(<<"k">>)
          [] q = PathSibling -> File(<<"s">>)
          [] q = PathOutside -> File(<<"s">>)
          [] OTHER           -> Dir]

\* The call at the Dispatch boundary: phase "called" when the request has
\* arrived, "done" when the handler has run.  prev is the call completed
\* just before it, for a caller that issues its calls back to back.
NoPrev == [kind |-> "", args |-> NoArgs, ok |-> FALSE]

Idle ==
    [phase |-> "idle", kind |-> "", args |-> NoArgs, io |-> "none", res |-> Ok,
     steps |-> <<>>, prev |-> NoPrev]

(***************************************************************************)
(* The Dispatch boundary                                                   *)
(***************************************************************************)
IdlePure == pure = [op |-> "", in |-> <<>>, out |-> <<>>]
IdleAtom == names = <<>> /\ inode = <<>> /\ wr = <<>> /\ prior = Absent
IdleTerm == term = NoTerm /\ ctx = [c \in Contexts |-> IdleCtx]

Init ==
    /\ cfg = [max_read_bytes |-> MaxRead, allow_shell |-> TRUE]
    /\ fs = InitialTree
    /\ now = 0
    /\ nops = 0
    /\ last = Idle
    /\ IdlePure
    /\ IdleAtom
    /\ IdleTerm

\* A request (kind, args) arrives; io is what the environment will do to
\* the backup copy of this call.
Request(kind, a, io) ==
    /\ nops < MaxOps
    /\ nops' = nops + 1
    /\ last' = [phase |-> "called", kind |-> kind, args |-> a, io |-> io,
                res |-> Ok, steps |-> <<>>,
                prev |-> IF last.phase = "done"
                         THEN [kind |-> last.kind, args |-> last.args, ok |-> last.res.ok]
                         ELSE NoPrev]
    /\ UNCHANGED <<cfg, fs, now, pure, names, inode, wr, prior, term, ctx>>

\* A caller issues a call when the one before it has returned; a pipelined
\* caller issues it as soon as the one before it is done.
Ready(pipelined) ==
    \/ last.phase = "idle"
    \/ pipelined /\ last.phase = "done"

FsRead(pipelined, Rels, Starts, Lengths) ==
    /\ Ready(pipelined)
    /\ \E rel \in Rels, st \in Starts, ln \in Lengths :
        Request("fs.read", [NoArgs EXCEPT !.rel = rel, !.start = st, !.length = ln], "none")

FsWrite(pipelined, Rels, Contents) ==
    /\ Ready(pipelined)
    /\ \E rel \in Rels, c \in Contents, b \in BOOLEAN :
        \E io \in IF b THEN IoInputs ELSE {"none"} :
            Request("fs.write", [NoArgs EXCEPT !.rel = rel, !.content = c, !.backup = b], io)

FsCreateDir(Rels) ==
    /\ Ready(FALSE)
    /\ \E rel \in Rels : Request("fs.create_dir", [NoArgs EXCEPT !.rel = rel], "none")

FsDelete(Rels) ==
    /\ Ready(FALSE)
    /\ \E rel \in Rels : Request("fs.delete", [NoArgs EXCEPT !.rel = rel], "none")

FsMove(Rels, Dsts) ==
    /\ Ready(FALSE)
    /\ \E rel \in Rels, dst \in Dsts :
        Request("fs.move", [NoArgs EXCEPT !.rel = rel, !.dst = dst], "none")

EditApply(Rels, Diffs) ==
    /\ Ready(FALSE)
    /\ \E rel \in Rels, d \in Diffs, io \in IoInputs :
        Request("edit.apply", [NoArgs EXCEPT !.rel = rel, !.diff = d], io)

EditSuggest(Rels, Diffs) ==
    /\ Ready(FALSE)
    /\ \E rel \in Rels, d \in Diffs, io \in IoInputs :
        Request("edit.suggest", [NoArgs EXCEPT !.rel = rel, !.diff = d], io)

\* Executor.dispatch runs the handler bound to the kind.
Execute ==
    /\ last.phase = "called"
    /\ LET o == dispatch(last.kind, cfg, fs, term, now, last.args, last.io)
       IN  /\ fs' = o.fs
           /\ term' = o.term
           /\ last' = [last EXCEPT !.phase = "done", !.res = o.res, !.steps = o.steps]
    /\ UNCHANGED <<cfg, now, nops, pure, names, inode, wr, prior, ctx>>

\* The result reaches the caller and the call is over.
Return ==
    /\ last.phase = "done"
    /\ last' = Idle
    /\ UNCHANGED <<cfg, fs, now, nops, pure, names, inode, wr, prior, term, ctx>>

\* The wall clock reaches the next second.
Tick ==
    /\ now < MaxTime
    /\ now' = now + 1
    /\ UNCHANGED <<cfg, fs, nops, last, pure, names, inode, wr, prior, term, ctx>>

Next ==
    \/ FsRead(FALSE, RelInputs, {0}, {NoLength})
    \/ FsWrite(FALSE, RelInputs, ContentInputs)
    \/ FsCreateDir(RelInputs)
    \/ FsDelete(RelInputs)
    \/ FsMove(RelInputs, DstInputs)
    \/ EditApply(RelInputs, DiffInputs)
    \/ EditSuggest(RelInputs, DiffInputs)
    \/ Execute
    \/ Return
    \/ Tick

Spec == Init /\ [][Next]_vars

(***************************************************************************)
(* PathJail as pure functions: jail_path and the policy on drawn inputs    *)
(***************************************************************************)
MaxComps    == 3    \* components in a drawn relative path
MaxPatterns == 2    \* patterns in a drawn allow or deny list

SeqsUpTo(S, n) == UNION {[1..k -> S] : k \in 0..n}

CompInputs == {<<".", ".">>, <<".">>, <<"p", "r", "o", "j", "2">>, <<"a">>, <<"x">>}

\* Relative path strings of one to MaxComps components
JailInputs == {JoinSlash(cs) : cs \in SeqsUpTo(CompInputs, MaxComps) \ {<<>>}}

PatternInputs == {<<"*", "*", "/", "*">>, <<"*", "*", "/", ".", "e", "n", "v", "*">>,
                  <<"*", ".", "p", "y">>}

PolicyPathInputs == {PathA, PathEnv, Append(project_root, <<"m", ".", "p", "y">>)}

JailResolve ==
    /\ pure.op = ""
    /\ \E p \in JailInputs :
          pure' = [op |-> "jail_path", in |-> <<p>>, out |-> jail_path(project_root, p)]
    /\ UNCHANGED <<cfg, fs, now, nops, last, names, inode, wr, prior, term, ctx>>

PolicyAllowed ==
    /\ pure.op = ""
    /\ \E p \in PolicyPathInputs :
       \E allow \in SeqsUpTo(PatternInputs, MaxPatterns) :
       \E deny \in SeqsUpTo(PatternInputs, MaxPatterns) :
          pure' = [op |-> "allowed", in |-> <<p, allow, deny>>,
                   out |-> allowed_with(p, allow, deny)]
    /\ UNCHANGED <<cfg, fs, now, nops, last, names, inode, wr, prior, term, ctx>>

NextJail == JailResolve \/ PolicyAllowed

SpecJail == Init /\ [][NextJail]_vars

\* C1: a relative path whose canonical join with the project root is neither
\* the root nor below it, component by component, is refused by jail_path.
C1_EscapeRefused ==
    pure.op = "jail_path" =>
        (~IsUnder(resolve(joinpath(project_root, pure.in[1])), project_root)
            => ~pure.out.ok)

\* C10: allowed is true exactly when the path matches some allow pattern and
\* no deny pattern.
C10_AllowedIffAllowAndNoDeny ==
    pure.op = "allowed" =>
        LET s     == str(pure.in[1])
            allow == pure.in[2]
            deny  == pure.in[3]
        IN  pure.out <=> /\ \E k \in 1..Len(allow) : fnmatch(s, allow[k])
                         /\ ~\E k \in 1..Len(deny) : fnmatch(s, deny[k])

\* C10 witness: a path that matches an allow and a deny pattern was rejected.
C10_Witness ==
    /\ pure.op = "allowed"
    /\ \E k \in 1..Len(pure.in[2]) : fnmatch(str(pure.in[1]), pure.in[2][k])
    /\ \E k \in 1..Len(pure.in[3]) : fnmatch(str(pure.in[1]), pure.in[3][k])
    /\ pure.out = FALSE

(***************************************************************************)
(* Properties of the Dispatch boundary, under Spec                         *)
(***************************************************************************)
MutatingKinds ==
    {"fs.write", "fs.create_dir", "fs.delete", "fs.move", "edit.apply", "edit.suggest"}

\* The storage steps that create, overwrite or remove something
MutatingSteps == {"mkdir", "open_w", "replace", "backup", "unlink", "rmtree"}

\* The storage steps that open a file, to read it or to write it
OpeningSteps == {"open_r", "open_w", "backup"}

TargetOf(rel) == resolve(joinpath(project_root, rel))

\* The target lies in the jail and the allow/deny policy rejects it.
Rejected(rel) ==
    LET j == jail_path(project_root, rel)
    IN  j.ok /\ ~_allowed(j.path)

\* The paths a call names as its targets
TargetsOf(c) == IF c.kind = "fs.move" THEN {c.args.rel, c.args.dst} ELSE {c.args.rel}

Done == last.phase = "done"

StepIndex == 1..Len(last.steps)

\* C2: a mutating call with a target that the policy rejects fails and has
\* taken no storage step that creates, overwrites or removes anything.
C2_RejectedTargetUnchanged ==
    (Done /\ last.kind \in MutatingKinds /\ \E rel \in TargetsOf(last) : Rejected(rel))
        => /\ ~last.res.ok
           /\ \A i \in StepIndex : last.steps[i].op \notin MutatingSteps

\* C3: every file a call has opened, and every file whose content it has
\* handed to the text-generation function, is the project root or below it.
C3_OpenedInsideRoot ==
    Done =>
        \A i \in StepIndex :
            LET st == last.steps[i]
            IN  (st.op \in OpeningSteps \/ (st.op = "generate" /\ st.data # <<>>))
                    => IsUnder(st.path, project_root)

\* A call has replaced existing content at step i.
Overwrites(i) ==
    /\ last.steps[i].op \in {"replace", "open_w"}
    /\ last.steps[i].prev.t = "file"
    /\ IsUnder(last.steps[i].path, project_root)

\* An earlier step of the call is a backup that holds the content step i replaced.
BackedUpBefore(i) ==
    \E j \in 1..(i - 1) :
        /\ last.steps[j].op = "backup"
        /\ last.steps[j].data = last.steps[i].prev.data
        /\ Node(fs, last.steps[j].path) = File(last.steps[i].prev.data)

\* C4 as stated: every step of a call that overwrites the existing content
\* of a file in the project tree comes after a backup, in the same call,
\* that holds exactly the content it replaces.
C4_EveryOverwriteBackedUp ==
    Done => \A i \in StepIndex : Overwrites(i) => BackedUpBefore(i)

BackupsIn(f) == {q \in DOMAIN f : Len(q) > 0 /\ parent(q) = backup_dir}

\* The step that runs the handler of a call of the given kinds
Executes(kinds) == last.phase = "called" /\ last'.phase = "done" /\ last.kind \in kinds

\* C5: a successful fs.write(p, C1) with backup enabled leaves p holding
\* exactly C1; when p held C0 before, a backup holding exactly C0 is in the
\* backup directory afterwards, and when p was absent the backup directory
\* is as it was.
C5_WriteBackupPostcondition ==
    [][(Executes({"fs.write"}) /\ last.args.backup /\ last'.res.ok)
          => LET p == TargetOf(last.args.rel)
             IN  /\ Node(fs', p) = File(encode(last.args.content))
                 /\ is_file(fs, p)
                       => \E q \in BackupsIn(fs') : fs'[q] = File(fs[p].data)
                 /\ ~exists(fs, p)
                       => /\ BackupsIn(fs') = BackupsIn(fs)
                          /\ \A q \in BackupsIn(fs) : fs'[q] = fs[q]]_vars

\* C5 witness: an fs.write with backup enabled onto an existing file has
\* succeeded, with the backup and the new content in place.
C5_Witness ==
    /\ Done /\ last.kind = "fs.write" /\ last.args.backup /\ last.res.ok
    /\ Node(fs, TargetOf(last.args.rel)) = File(encode(last.args.content))
    /\ \E i \in StepIndex :
          /\ last.steps[i].op = "backup"
          /\ Node(fs, last.steps[i].path) = File(last.steps[i].data)

BackupFailed(c) == \E i \in 1..Len(c.steps) : c.steps[i].op = "backup_failed"

\* C6: when the backup step of fs.write or edit.apply fails, the call
\* reports failure and its target is exactly what it was before the call.
C6_BackupFailureAborts ==
    [][(Executes({"fs.write", "edit.apply"}) /\ BackupFailed(last'))
          => /\ ~last'.res.ok
             /\ Node(fs', TargetOf(last.args.rel)) = Node(fs, TargetOf(last.args.rel))]_vars

\* C6 witness: the backup of an fs.write onto an existing file has failed,
\* the call has failed and the file is still there.
C6_Witness ==
    /\ Done /\ last.kind = "fs.write" /\ BackupFailed(last)
    /\ ~last.res.ok
    /\ is_file(fs, TargetOf(last.args.rel))

(***************************************************************************)
(* fs.write followed by fs.read, under SpecRoundTrip                       *)
(***************************************************************************)
RoundTripRels     == {RelA, RelTmp, RelEnv}
RoundTripContents == {<<"h">>, <<"h", EAcute>>, <<"h", "h", EAcute, "h">>}

NextRoundTrip ==
    \/ FsWrite(TRUE, RoundTripRels, RoundTripContents)
    \/ FsRead(TRUE, RoundTripRels, {0, 1}, {NoLength, Length(1), Length(-1)})
    \/ Execute
    \/ Return
    \/ Tick

SpecRoundTrip == Init /\ [][NextRoundTrip]_vars

\* An fs.read with default start and length has run right after a
\* successful fs.write to the same path.
RoundTripCase ==
    /\ Done /\ last.kind = "fs.read"
    /\ last.args.start = 0 /\ ~last.args.length.given
    /\ last.prev.kind = "fs.write" /\ last.prev.ok
    /\ last.prev.args.rel = last.args.rel

ReadReturns(text) ==
    last.res.ok /\ last.res.mode = "text" /\ last.res.content = text

\* C9 as stated: fs.write(p, C) immediately followed by fs.read(p) with
\* default start and length returns exactly C, whatever the length of C.
C9_RoundTripAnyLength ==
    RoundTripCase => ReadReturns(last.prev.args.content)

\* C9, amended: fs.write(p, C) immediately followed by fs.read(p) with
\* default start and length returns exactly C when the UTF-8 encoding of C
\* is no longer than max_read_bytes.
C9_RoundTripWithinMaxRead ==
    (RoundTripCase /\ Len(encode(last.prev.args.content)) <= cfg.max_read_bytes)
        => ReadReturns(last.prev.args.content)

\* C9 witness: a text that fits in max_read_bytes was written and read back.
C9_Witness ==
    /\ RoundTripCase
    /\ last.prev.args.content # <<>>
    /\ Len(encode(last.prev.args.content)) <= cfg.max_read_bytes
    /\ ReadReturns(last.prev.args.content)

(***************************************************************************)
(* atomic_write step by step: one writer (SpecAtomic), two (SpecRace)      *)
(***************************************************************************)
Writers == {1, 2}

\* The bytes the writers are given, the target before them, and what an
\* earlier stopped write may have left under the temporary name
WriteInputs == {encode(<<"h", EAcute>>), encode(<<"n", "o">>), encode(<<"h", EAcute, "n">>)}
PriorInputs == {Absent, File(<<"o">>), File(<<"k">>)}
StaleInputs == {Absent, File(<<"k", "s">>)}

IdleWriter == [pc |-> "idle", fd |-> 0, off |-> 0, data |-> <<>>]

\* names and inodes of a directory that holds the given target and
\* temporary file
Entries(p, target, stale) ==
    LET ps == (IF target.t = "file" THEN {p} ELSE {})
                \cup (IF stale.t = "file" THEN {tmp_of(p)} ELSE {})
    IN  [q \in ps |-> IF q = p THEN 1 ELSE IF target.t = "file" THEN 2 ELSE 1]

Inodes(target, stale) ==
    (IF target.t = "file" THEN <<target.data>> ELSE <<>>)
        \o (IF stale.t = "file" THEN <<stale.data>> ELSE <<>>)

InitAtomic ==
    /\ cfg = [max_read_bytes |-> MaxRead, allow_shell |-> TRUE]
    /\ fs = InitialTree
    /\ now = 0
    /\ nops = 0
    /\ last = Idle
    /\ IdlePure
    /\ IdleTerm
    /\ wr = [w \in Writers |-> IdleWriter]
    /\ \E target \in PriorInputs, stale \in StaleInputs :
          /\ prior = target
          /\ names = Entries(PathA, target, stale)
          /\ inode = Inodes(target, stale)

\* What a reader that opens the path now reads
Observed(p) == IF p \in DOMAIN names THEN File(inode[names[p]]) ELSE Absent

\* atomic_write(path, data) is entered.
AwBegin(w, path) ==
    /\ wr[w].pc = "idle"
    /\ \E data \in WriteInputs :
          wr' = [wr EXCEPT ![w] = [pc |-> "mkdir", fd |-> 0, off |-> 0, data |-> data]]
    /\ UNCHANGED <<cfg, fs, now, nops, last, pure, names, inode, prior, term, ctx>>

\* path.parent.mkdir(parents=True, exist_ok=True): the parent is there.
AwMkdir(w, path) ==
    /\ wr[w].pc = "mkdir"
    /\ wr' = [wr EXCEPT ![w].pc = "open"]
    /\ UNCHANGED <<cfg, fs, now, nops, last, pure, names, inode, prior, term, ctx>>

\* open(tmp, "wb"): truncates the file that has the name, or creates one.
AwOpen(w, path) ==
    /\ wr[w].pc = "open"
    /\ LET tmp == tmp_of(path)
       IN  IF tmp \in DOMAIN names
           THEN /\ inode' = [inode EXCEPT ![names[tmp]] = <<>>]
                /\ names' = names
                /\ wr' = [wr EXCEPT ![w].pc = "write", ![w].fd = names[tmp]]
           ELSE /\ inode' = Append(inode, <<>>)
                /\ names' = [q \in DOMAIN names \cup {tmp} |->
                                IF q = tmp THEN Len(inode) + 1 ELSE names[q]]
                /\ wr' = [wr EXCEPT ![w].pc = "write", ![w].fd = Len(inode) + 1]
    /\ UNCHANGED <<cfg, fs, now, nops, last, pure, prior, term, ctx>>

\* The bytes of a file after byte b is written at offset off; a gap below
\* the offset reads as zero bytes.
WriteAt(bytes, off, b) ==
    [i \in 1..(IF Len(bytes) > off + 1 THEN Len(bytes) ELSE off + 1) |->
        IF i = off + 1 THEN b ELSE IF i <= Len(bytes) THEN bytes[i] ELSE "00"]

\* f.write(data), and the flush at the end of the with block: the bytes
\* reach the open file one after the other, at the writer's own offset.
AwWrite(w, path) ==
    /\ wr[w].pc = "write"
    /\ wr[w].off < Len(wr[w].data)
    /\ inode' = [inode EXCEPT ![wr[w].fd] = WriteAt(@, wr[w].off, wr[w].data[wr[w].off + 1])]
    /\ wr' = [wr EXCEPT ![w].off = @ + 1]
    /\ UNCHANGED <<cfg, fs, now, nops, last, pure, names, prior, term, ctx>>

\* The with block is left: the file is closed.
AwClose(w, path) ==
    /\ wr[w].pc = "write"
    /\ wr[w].off = Len(wr[w].data)
    /\ wr' = [wr EXCEPT ![w].pc = "replace"]
    /\ UNCHANGED <<cfg, fs, now, nops, last, pure, names, inode, prior, term, ctx>>

\* os.replace(tmp, path): the temporary name becomes the target's name, or
\* FileNotFoundError when the temporary name is gone.
AwReplace(w, path) ==
    /\ wr[w].pc = "replace"
    /\ LET tmp == tmp_of(path)
       IN  IF tmp \in DOMAIN names
           THEN /\ names' = [q \in (DOMAIN names \ {tmp}) \cup {path} |->
                                IF q = path THEN names[tmp] ELSE names[q]]
                /\ wr' = [wr EXCEPT ![w].pc = "done"]
           ELSE /\ names' = names
                /\ wr' = [wr EXCEPT ![w].pc = "failed"]
    /\ UNCHANGED <<cfg, fs, now, nops, last, pure, inode, prior, term, ctx>>

\* The process stops in the middle of the write.
AwStop(w, path) ==
    /\ wr[w].pc \in {"mkdir", "open", "write", "replace"}
    /\ wr' = [wr EXCEPT ![w].pc = "stopped"]
    /\ UNCHANGED <<cfg, fs, now, nops, last, pure, names, inode, prior, term, ctx>>

AwStep(w, path) ==
    \/ AwBegin(w, path)
    \/ AwMkdir(w, path)
    \/ AwOpen(w, path)
    \/ AwWrite(w, path)
    \/ AwClose(w, path)
    \/ AwReplace(w, path)
    \/ AwStop(w, path)

NextAtomic == AwStep(1, PathA)

SpecAtomic == InitAtomic /\ [][NextAtomic]_vars

NextRace == \E w \in Writers : AwStep(w, PathA)

SpecRace == InitAtomic /\ [][NextRace]_vars

\* C7: at every step of a single atomic_write(p, C1) with no other writer,
\* and after the process has stopped at any step, a reader of p reads the
\* complete prior state of p or exactly C1.
C7_SingleWriteAllOrNothing ==
    wr[2].pc = "idle" =>
        \/ Observed(PathA) = prior
        \/ wr[1].pc = "done" /\ Observed(PathA) = File(wr[1].data)

\* C7 witness: the writer stopped with its bytes partly written to the
\* temporary file, and the target holds its prior content.
C7_Witness ==
    /\ wr[1].pc = "stopped"
    /\ wr[1].off > 0 /\ wr[1].off < Len(wr[1].data)
    /\ prior.t = "file"
    /\ Observed(PathA) = prior

\* C8: with two writers of the same path interleaved at their storage
\* steps, a reader of p reads the prior content of p or the complete
\* content of one of the two writes.
C8_ConcurrentAllOrNothing ==
    \/ Observed(PathA) = prior
    \/ \E w \in Writers : wr[w].pc # "idle" /\ Observed(PathA) = File(wr[w].data)

(***************************************************************************)
(* fs.tree on drawn arguments and policies, under SpecTree                 *)
(***************************************************************************)
MaxDepth == 3    \* the largest max_depth drawn

DotGit == <<".", "g", "i", "t">>

\* A project with version-control directories at two levels
WalkTree ==
    [q \in {<<>>, project_root,
            Append(project_root, DotGit),
            project_root \o <<DotGit, <<"c">>>>,
            PathA, PathEnv, PathDir,
            Append(PathDir, <<"e">>),
            PathDir \o << <<"e">>, <<"g">> >>,
            PathDir \o << <<"e">>, <<"i">>, <<"j">> >>,
            PathDir \o << <<"e">>, <<"i">> >>,
            Append(PathDir, DotGit),
            PathDir \o <<DotGit, <<"h">>>>,
            parent(PathSibling), PathSibling} |->
        IF q \in {project_root \o <<DotGit, <<"c">>>>, PathA, PathEnv,
                  PathDir \o << <<"e">>, <<"g">> >>,
                  PathDir \o << <<"e">>, <<"i">>, <<"j">> >>,
                  PathDir \o <<DotGit, <<"h">>>>, PathSibling}
        THEN File(<<"o">>) ELSE Dir]

TreeRelInputs ==
    {<<".">>, RelDir, <<"d", "/", "e">>, DotGit, RelA, <<"n">>,
     <<".", ".", "/", "p", "r", "o", "j", "2">>, <<".", ".">>}

\* deny lists: the default one, ".git/**" alone, none, and one that names
\* the directories by their absolute form
DenyInputs ==
    {deny_patterns,
     << <<".", "g", "i", "t", "/", "*", "*">> >>,
     <<>>,
     << <<"*", "/", ".", "g", "i", "t">>, <<"*", "/", ".", "g", "i", "t", "/", "*">> >>}

FsTreeEval ==
    /\ pure.op = ""
    /\ \E rel \in TreeRelInputs, d \in 0..MaxDepth, deny \in DenyInputs :
          LET o == fs_tree_with(WalkTree, rel, d, allow_patterns, deny)
          IN  pure' = [op |-> "tree", in |-> <<rel, d, allow_patterns, deny>>,
                       out |-> [res |-> o.res, steps |-> o.steps]]
    /\ UNCHANGED <<cfg, fs, now, nops, last, names, inode, wr, prior, term, ctx>>

NextTree == FsTreeEval

SpecTree == Init /\ [][NextTree]_vars

Range(q) == {q[i] : i \in 1..Len(q)}

TreeReturned == pure.op = "tree" /\ pure.out.res.ok

\* The absolute path of a returned entry
AbsOf(e) == project_root \o parts(e.path)

\* C11: every entry fs.tree returns passes the policy, and with the deny
\* pattern ".git/**" configured no returned path has a ".git" component.
C11_TreeHidesDenied ==
    TreeReturned =>
        \A e \in Range(pure.out.res.content) :
            /\ allowed_with(AbsOf(e), pure.in[3], pure.in[4])
            /\ <<".", "g", "i", "t", "/", "*", "*">> \in Range(pure.in[4])
                  => DotGit \notin Range(parts(e.path))

\* The entries of the tree that are below base with their directory at
\* most max_depth levels below it, and that the policy permits
Expected(f, base, max_depth, allow, deny) ==
    {entry(f, q) : q \in {x \in DOMAIN f :
                             /\ x # base /\ IsUnder(x, base)
                             /\ Len(x) - Len(base) - 1 <= max_depth
                             /\ allowed_with(x, allow, deny)}}

MaxCalls == 3    \* open, exec and close calls in one behaviour

SessionIds == {<<"s">>, <<"t">>}
CmdInputs  == {CmdLs, CmdExit}

notTerm == <<cfg, fs, now, last, pure, names, inode, wr, prior>>

\* The session the table holds for id is missing or its subprocess is gone.
Stale(tm, id) == id \notin DOMAIN tm.sessions \/ ~tm.procs[tm.sessions[id]].alive

\* Context x enters a method.
Entered(x, pc, op, id, cmd) ==
    [x EXCEPT !.pc = pc, !.op = op, !.id = id, !.cmd = cmd, !.s = 0, !.lines = <<>>,
              !.closed = id \in term.closed, !.stale = Stale(term, id), !.fresh = FALSE]

\* Context x leaves its method with a result.
Left(x, ok, output) ==
    [x EXCEPT !.pc = "idle",
              !.res = [op |-> x.op, id |-> x.id, ok |-> ok, output |-> output,
                       closed |-> x.closed, stale |-> x.stale, fresh |-> x.fresh]]

\* TerminalTool.open up to the table lookup
TermOpen(c, Ids) ==
    /\ ctx[c].pc = "idle" /\ nops < MaxCalls
    /\ \E id \in Ids :
          LET x == Entered(ctx[c], "spawn", "open", id, <<>>)
          IN  ctx' = [ctx EXCEPT ![c] =
                         IF ~cfg.allow_shell THEN Left(x, FALSE, <<>>)
                         ELSE IF id \in DOMAIN term.sessions THEN Left(x, TRUE, <<>>)
                         ELSE x]
    /\ nops' = nops + 1
    /\ UNCHANGED <<term, notTerm>>

\* TerminalTool.exec up to the table lookup
TermExec(c, Ids) ==
    /\ ctx[c].pc = "idle" /\ nops < MaxCalls
    /\ \E id \in Ids, cmd \in CmdInputs :
          LET x == Entered(ctx[c], "spawn", "exec", id, cmd)
          IN  ctx' = [ctx EXCEPT ![c] =
                         IF id \in DOMAIN term.sessions
                         THEN [x EXCEPT !.pc = "send", !.s = term.sessions[id]]
                         ELSE x]
    /\ nops' = nops + 1
    /\ UNCHANGED <<term, notTerm>>

\* ShellSession(self.cfg, session_id)
TermSpawn(c) ==
    /\ ctx[c].pc = "spawn"
    /\ term' = spawn(term, ctx[c].id)
    /\ ctx' = [ctx EXCEPT ![c].pc = "insert", ![c].s = Len(term.procs) + 1,
                          ![c].fresh = TRUE]
    /\ UNCHANGED <<nops, notTerm>>

\* self.sessions[session_id] = s
TermInsert(c) ==
    /\ ctx[c].pc = "insert"
    /\ term' = insert(term, ctx[c].id, ctx[c].s)
    /\ ctx' = [ctx EXCEPT ![c] = IF ctx[c].op = "open" THEN Left(@, TRUE, <<>>)
                                 ELSE [@ EXCEPT !.pc = "send"]]
    /\ UNCHANGED <<nops, notTerm>>

\* s.send(command)
TermSend(c) ==
    /\ ctx[c].pc = "send"
    /\ LET r == send(term, ctx[c].s, ctx[c].cmd)
       IN  /\ term' = r.tm
           /\ ctx' = [ctx EXCEPT ![c] = Left(@, r.ok, <<>>)]
    /\ UNCHANGED <<nops, notTerm>>

\* TerminalTool.read up to the table lookup
TermRead(c, Ids) ==
    /\ ctx[c].pc = "idle"
    /\ \E id \in Ids :
          LET x == Entered(ctx[c], "while", "read", id, <<>>)
          IN  ctx' = [ctx EXCEPT ![c] =
                         IF id \in DOMAIN term.sessions
                         THEN [x EXCEPT !.s = term.sessions[id]]
                         ELSE Left(x, TRUE, <<>>)]
    /\ UNCHANGED <<term, nops, notTerm>>

\* ShellSession.read: the while condition, and the return when it is false
ReadWhile(c) ==
    /\ ctx[c].pc = "while"
    /\ IF returns_now(term.procs[ctx[c].s].q, ctx[c].lines, MaxLines)
       THEN /\ term' = [term EXCEPT !.procs[ctx[c].s].got = @ \o ctx[c].lines]
            /\ ctx' = [ctx EXCEPT ![c] = Left(@, TRUE, ctx[c].lines)]
       ELSE /\ term' = term
            /\ ctx' = [ctx EXCEPT ![c].pc = "get"]
    /\ UNCHANGED <<nops, notTerm>>

\* lines.append(self.q.get_nowait()): queue.Empty when the queue is empty
ReadGet(c) ==
    /\ ctx[c].pc = "get"
    /\ LET q == term.procs[ctx[c].s].q
       IN  IF q = <<>>
           THEN /\ term' = term
                /\ ctx' = [ctx EXCEPT ![c] = Left(@, FALSE, <<>>)]
           ELSE /\ term' = [term EXCEPT !.procs[ctx[c].s].q = Tail(q)]
                /\ ctx' = [ctx EXCEPT ![c].lines = Append(@, Head(q)), ![c].pc = "while"]
    /\ UNCHANGED <<nops, notTerm>>

\* TerminalTool.close
TermClose(c, Ids) ==
    /\ ctx[c].pc = "idle" /\ nops < MaxCalls
    /\ \E id \in Ids :
          /\ term' = term_close(term, id).term
          /\ ctx' = [ctx EXCEPT ![c] = Left(Entered(@, "idle", "close", id, <<>>), TRUE, <<>>)]
    /\ nops' = nops + 1
    /\ UNCHANGED notTerm

\* The subprocess takes its next command: "exit" ends it, any other
\* command makes it emit a line.
ProcRun ==
    /\ \E p \in 1..Len(term.procs) :
          /\ term.procs[p].alive /\ term.procs[p].stdin # <<>>
          /\ LET line == <<p, Len(term.procs[p].emitted) + 1>>
             IN  term' = IF Head(term.procs[p].stdin) = CmdExit
                         THEN [term EXCEPT !.procs[p].stdin = Tail(@),
                                           !.procs[p].alive = FALSE]
                         ELSE [term EXCEPT !.procs[p].stdin = Tail(@),
                                           !.procs[p].out = Append(@, line),
                                           !.procs[p].emitted = Append(@, line)]
    /\ UNCHANGED <<ctx, nops, notTerm>>

\* The subprocess is ended from outside.
ProcExit ==
    /\ \E p \in 1..Len(term.procs) :
          /\ term.procs[p].alive
          /\ term' = [term EXCEPT !.procs[p].alive = FALSE]
    /\ UNCHANGED <<ctx, nops, notTerm>>

\* ShellSession._pump: the reader thread of subprocess p moves one line into
\* the queue; put waits only while the queue is full.
PumpOf(p) ==
    /\ p \in 1..Len(term.procs)
    /\ term.procs[p].out # <<>>
    /\ ~q_full(term.procs[p].q)
    /\ term' = [term EXCEPT !.procs[p].out = Tail(@),
                            !.procs[p].q = q_put(term.procs[p].q,
                                                 Head(term.procs[p].out))]
    /\ UNCHANGED <<ctx, nops, notTerm>>

Pump == \E p \in 1..MaxCalls : PumpOf(p)

ReadSteps == ReadWhile(1) \/ ReadGet(1)

Calls(Ids) ==
    \/ TermOpen(1, Ids) \/ TermExec(1, Ids) \/ TermSpawn(1) \/ TermInsert(1)
    \/ TermSend(1) \/ TermRead(1, Ids) \/ TermClose(1, Ids)

NextTerm == Calls(SessionIds) \/ ReadSteps \/ ProcRun \/ ProcExit \/ Pump

SpecTerm == Init /\ [][NextTerm]_vars

NextTermOne == Calls({<<"s">>}) \/ ReadSteps \/ ProcRun \/ ProcExit \/ Pump

\* One session; the calling context always gets to take the next step of
\* its read, and nothing else is assumed to progress.
SpecTermLive == Init /\ [][NextTermOne]_vars /\ WF_vars(ReadSteps)

\* Two contexts in open and exec of one id
NextTermRace ==
    \/ \E c \in Contexts :
          \/ TermOpen(c, {<<"s">>}) \/ TermExec(c, {<<"s">>})
          \/ TermSpawn(c) \/ TermInsert(c) \/ TermSend(c)
    \/ ProcRun \/ ProcExit

SpecTermRace == Init /\ [][NextTermRace]_vars

Procs == 1..Len(term.procs)

LiveFor(id) == {p \in Procs : term.procs[p].id = id /\ term.procs[p].alive}

Quiet == \A c \in Contexts : ctx[c].pc = "idle"

IsPrefix(a, b) == Len(a) <= Len(b) /\ SubSeq(b, 1, Len(a)) = a

\* The lines a read that is under way has taken from the queue of p
InFlight(p) ==
    IF ctx[1].pc \in {"while", "get"} /\ ctx[1].s = p THEN ctx[1].lines ELSE <<>>

Reading == ctx[1].pc \in {"while", "get"}

\* C13: every session id in the session table has exactly one live
\* subprocess; a session whose subprocess has exited is not in the table.
C13_SessionHasOneLiveSubprocess ==
    \A id \in DOMAIN term.sessions : Cardinality(LiveFor(id)) = 1

\* C14: once the concurrent open and exec calls have returned, every live
\* subprocess is the one the session table records for its id.
C14_NoOrphanSubprocess ==
    Quiet => \A p \in Procs :
                term.procs[p].alive =>
                    /\ term.procs[p].id \in DOMAIN term.sessions
                    /\ term.sessions[term.procs[p].id] = p

\* C15: for every session, the lines the reads have returned, then the
\* lines a read under way holds, then the lines still in the queue, are a
\* prefix of the lines the subprocess has emitted.
C15_ReadsArePrefixOfEmitted ==
    \A p \in Procs :
        IsPrefix(term.procs[p].got \o InFlight(p) \o term.procs[p].q,
                 term.procs[p].emitted)

\* Two exec calls have emitted their lines, a read has returned MaxLines of
\* them in one result and a line is still buffered.
C15_Witness ==
    /\ ctx[1].res.op = "read" /\ Len(ctx[1].res.output) = MaxLines
    /\ ctx[1].res.id \in DOMAIN term.sessions
    /\ LET p == term.sessions[ctx[1].res.id]
       IN  /\ term.procs[p].q # <<>>
           /\ term.procs[p].got = ctx[1].res.output

ReadResultBounded ==
    ctx[1].res.op = "read" =>
        /\ ctx[1].res.ok
        /\ Len(ctx[1].res.output) <= MaxLines

ReadHoldsBuffered ==
    Reading => /\ Len(ctx[1].lines) <= MaxLines
               /\ \A i \in 1..Len(ctx[1].lines) :
                     \E k \in 1..Len(term.procs[ctx[1].s].emitted) :
                        term.procs[ctx[1].s].emitted[k] = ctx[1].lines[i]

\* C16: a read that has started returns, whatever the subprocess and the
\* reader thread do meanwhile; it returns at most MaxLines lines and every
\* line it holds had been emitted into the buffer.
C16_ReadReturns ==
    /\ [](ReadResultBounded /\ ReadHoldsBuffered)
    /\ (Reading ~> ~Reading)

\* A read of a session with an empty queue and a running subprocess has
\* returned the empty output.
C16_Witness ==
    /\ ctx[1].res.op = "read" /\ ctx[1].res.output = <<>> /\ ctx[1].pc = "idle"
    /\ ctx[1].res.id \in DOMAIN term.sessions
    /\ term.procs[term.sessions[ctx[1].res.id]].alive
    /\ term.procs[term.sessions[ctx[1].res.id]].q = <<>>
    /\ term.procs[term.sessions[ctx[1].res.id]].stdin # <<>>

\* C17: a read of an id that close() has removed returns the empty output,
\* an exec of such an id creates a session, and the queue of the session
\* the table records holds only lines of that session's own subprocess.
C17_ClosedSessionForgotten ==
    /\ (ctx[1].res.op = "read" /\ ctx[1].res.closed) => ctx[1].res.output = <<>>
    /\ (ctx[1].res.op = "exec" /\ ctx[1].res.closed) => ctx[1].res.fresh
    /\ \A id \in DOMAIN term.sessions :
          LET p == term.sessions[id]
          IN  \A i \in 1..Len(term.procs[p].q) :
                 /\ term.procs[p].q[i][1] = p
                 /\ term.procs[p].id = id

\* A session was closed with a line in its queue, the read after the close
\* has returned the empty output, and the exec after it has spawned the
\* subprocess of a new session.
C17_Witness ==
    /\ ctx[1].res.op = "read" /\ ctx[1].res.closed /\ ctx[1].res.output = <<>>
    /\ ctx[1].op = "exec" /\ ctx[1].id = ctx[1].res.id /\ ctx[1].pc = "insert"
    /\ \E p \in Procs : /\ term.procs[p].id = ctx[1].id
                        /\ term.procs[p].q # <<>>
                        /\ ~term.procs[p].alive

\* C18: an exec on an id that is unknown, or whose session's subprocess has
\* gone, opens a fresh session and sends the command to its subprocess.
C18_ExecOnStaleOpensFresh ==
    (ctx[1].res.op = "exec" /\ ctx[1].res.stale) => ctx[1].res.fresh

(***************************************************************************)
(* Executor.dispatch over every kind: the eleven entries of its table and  *)
(* kinds that are not in it                                                *)
(***************************************************************************)
Kinds ==
    {"fs.tree", "fs.read", "fs.write", "fs.create_dir", "fs.delete", "fs.move",
     "term.open", "term.exec", "term.read", "edit.apply", "edit.suggest"}

OtherKinds == {"term.close", "fs.copy", "FS.READ", ""}

FsTree(Rels, Depths) ==
    /\ Ready(FALSE)
    /\ \E rel \in Rels, d \in Depths :
        Request("fs.tree", [NoArgs EXCEPT !.rel = rel, !.max_depth = d], "none")

DispatchTermOpen(Ids) ==
    /\ Ready(FALSE)
    /\ \E id \in Ids : Request("term.open", [NoArgs EXCEPT !.session_id = id], "none")

DispatchTermExec(Ids, Cmds) ==
    /\ Ready(FALSE)
    /\ \E id \in Ids, cmd \in Cmds :
        Request("term.exec", [NoArgs EXCEPT !.session_id = id, !.command = cmd], "none")

DispatchTermRead(Ids) ==
    /\ Ready(FALSE)
    /\ \E id \in Ids : Request("term.read", [NoArgs EXCEPT !.session_id = id], "none")

\* A request whose kind is not a key of the table, with the arguments of a
\* delete, of a write or of a session operation
DispatchOther(Ks, Rels, Ids) ==
    /\ Ready(FALSE)
    /\ \E k \in Ks, rel \in Rels, id \in Ids :
        Request(k, [NoArgs EXCEPT !.rel = rel, !.dst = RelDir, !.content = <<"h">>,
                                  !.session_id = id, !.command = CmdExit], "none")

DispatchRels == {RelA, RelDir}

NextDispatch ==
    \/ FsTree(DispatchRels, {1})
    \/ FsRead(FALSE, DispatchRels, {0}, {NoLength})
    \/ FsWrite(FALSE, DispatchRels, {<<"h">>})
    \/ FsCreateDir(DispatchRels)
    \/ FsDelete(DispatchRels)
    \/ FsMove(DispatchRels, {RelDir})
    \/ DispatchTermOpen({<<"s">>})
    \/ DispatchTermExec({<<"s">>}, CmdInputs)
    \/ DispatchTermRead({<<"s">>})
    \/ EditApply(DispatchRels, DiffInputs)
    \/ EditSuggest(DispatchRels, DiffInputs)
    \/ DispatchOther(OtherKinds, DispatchRels, {<<"s">>})
    \/ Execute
    \/ Return
    \/ ProcRun
    \/ Pump

SpecDispatch == Init /\ [][NextDispatch]_vars

\* The step is the call of file-system or edit operation o and nothing else.
AsFs(o) == fs' = o.fs /\ term' = term /\ last'.res = o.res /\ last'.steps = o.steps

\* The step is the call of session operation o and nothing else.
AsTerm(o) == term' = o.term /\ fs' = fs /\ last'.res = o.res /\ last'.steps = <<>>

Routed ==
    LET k == last.kind
        a == last.args
    IN  /\ k = "fs.tree"       => AsFs(fs_tree(fs, a.rel, a.max_depth))
        /\ k = "fs.read"       => AsFs(fs_read(cfg, fs, a.rel, a.start, a.length))
        /\ k = "fs.write"      => AsFs(fs_write(fs, now, a.rel, a.content, a.backup, last.io))
        /\ k = "fs.create_dir" => AsFs(fs_create_dir(fs, a.rel))
        /\ k = "fs.delete"     => AsFs(fs_delete(fs, a.rel))
        /\ k = "fs.move"       => AsFs(fs_move(fs, a.rel, a.dst))
        /\ k = "term.open"     => AsTerm(term_open(cfg, term, a.session_id))
        /\ k = "term.exec"     => AsTerm(term_exec(term, a.session_id, a.command))
        /\ k = "term.read"     => AsTerm(term_read(term, a.session_id, MaxLines))
        /\ k = "edit.apply"    => AsFs(apply_unified_diff(fs, now, a.rel, a.diff, last.io))
        /\ k = "edit.suggest"  => AsFs(suggest_and_apply(fs, now, a.rel, a.diff, last.io))

\* C19: a dispatch of one of the eleven kinds is the call of the operation
\* bound to that kind and does not fail with UnknownOperation; a dispatch of
\* any other kind fails with UnknownOperation and leaves the file system and
\* the session table as they were.
C19_DispatchRoutesByKind ==
    [][Executes(Kinds \cup OtherKinds) =>
         IF last.kind \in Kinds
         THEN Routed /\ last'.res.err # "UnknownOperation"
         ELSE /\ last'.res = Err("UnknownOperation")
              /\ fs' = fs
              /\ term' = term]_vars

\* term.close, which is not in the table, has been dispatched for a session
\* that is open: the call has failed and the session is still there.
C19_Witness ==
    /\ Done /\ last.kind = "term.close" /\ last.res.err = "UnknownOperation"
    /\ last.args.session_id \in DOMAIN term.sessions
    /\ term.procs[term.sessions[last.args.session_id]].alive

(***************************************************************************)
(* EditTool._patch on diffs of up to MaxDiffLines lines                    *)
(***************************************************************************)
MaxDiffLines == 3

HunkLine    == <<"@", "@", "\n">>
InsertN     == <<"+", "n", "\n">>
InsertPlus  == <<"+", "+", "+", "x", "\n">>    \* inserts the line "++x"
DeleteO     == <<"-", "o", "\n">>
DeleteMinus == <<"-", "-", "-", "y", "\n">>    \* deletes the line "--y"
ContextC    == <<" ", "c", "\n">>
NoNewlineLine == NoNewline \o <<"\n">>
ContextBlank  == <<" ", "\n">>                 \* an empty line of context

DiffLineInputs ==
    {HunkLine, InsertN, InsertPlus, DeleteO, DeleteMinus, ContextC, NoNewlineLine,
     ContextBlank}

PatchInputs == SeqsUpTo(DiffLineInputs, MaxDiffLines)

PatchEval ==
    /\ pure.op = ""
    /\ \E d \in PatchInputs :
          pure' = [op |-> "patch", in |-> d, out |-> _patch(<<>>, Flatten(d))]
    /\ UNCHANGED <<cfg, fs, now, nops, last, names, inode, wr, prior, term, ctx>>

NextPatch == PatchEval

SpecPatch == Init /\ [][NextPatch]_vars

\* What a line after the hunk marker stands for in a unified diff: an
\* insertion gives its text without the "+", a context line its text
\* without the " ", a deletion, a hunk marker and the no-newline marker
\* give nothing.
body_line(l) ==
    IF startswith(l, <<"@", "@">>) THEN <<>>
    ELSE IF startswith(l, <<"+">>) THEN <<Tail(l)>>
    ELSE IF startswith(l, <<"-">>) THEN <<>>
    ELSE IF startswith(l, NoNewline) THEN <<>>
    ELSE IF startswith(l, <<" ">>) THEN <<Tail(l)>>
    ELSE <<l>>

RECURSIVE body_lines(_)
body_lines(ls) ==
    IF ls = <<>> THEN <<>> ELSE body_line(Head(ls)) \o body_lines(Tail(ls))

HasHunk == pure.op = "patch" /\ FirstHunk(pure.in, 1) > 0

\* C20: on a diff with a hunk marker, _patch returns, in order, the text of
\* every insertion line and of every context line after the marker, and
\* nothing else.
C20_HunkInsertionsVerbatim ==
    HasHunk =>
        /\ pure.out.ok
        /\ pure.out.lines =
              body_lines(SubSeq(pure.in, FirstHunk(pure.in, 1), Len(pure.in)))

(***************************************************************************)
(* EditTool._patch on one diff and two original contents                   *)
(***************************************************************************)
OldInputs == {<<>>, <<<<"o", "\n">>>>, <<<<"c", "\n">>, <<"z", "\n">>>>}

PatchPairEval ==
    /\ pure.op = ""
    /\ \E d \in PatchInputs, o1 \in OldInputs, o2 \in OldInputs :
          pure' = [op |-> "pair", in |-> [diff |-> d, old |-> <<o1, o2>>],
                   out |-> <<_patch(o1, Flatten(d)), _patch(o2, Flatten(d))>>]
    /\ UNCHANGED <<cfg, fs, now, nops, last, names, inode, wr, prior, term, ctx>>

NextPatchPair == PatchPairEval

SpecPatchPair == Init /\ [][NextPatchPair]_vars

\* The body of a diff: the lines after its first hunk marker, every line
\* when it has none.
body(ls) == IF FirstHunk(ls, 1) = 0 THEN ls ELSE SubSeq(ls, FirstHunk(ls, 1) + 1, Len(ls))

is_insertion(l) == startswith(l, <<"+">>) /\ ~startswith(l, <<"+", "+", "+">>)
is_context(l)   == startswith(l, <<" ">>)

\* The body is one line or more, each a context line or an insertion line.
BodyOnlyKept(ls) ==
    /\ body(ls) # <<>>
    /\ \A i \in 1..Len(body(ls)) : is_insertion(body(ls)[i]) \/ is_context(body(ls)[i])

\* The text of the lines, each without its first character
texts(ls) == [i \in 1..Len(ls) |-> Tail(ls[i])]

PairDone == pure.op = "pair"

SameOutcome == pure.out[1] = pure.out[2]

\* C21 as stated: the outcome is the same for both original contents, and a
\* diff whose body is only context and insertion lines gives exactly the
\* text of those lines.
C21_IndependentOfOriginal ==
    PairDone =>
        /\ SameOutcome
        /\ BodyOnlyKept(pure.in.diff) =>
              pure.out[1] = [ok |-> TRUE, lines |-> texts(body(pure.in.diff))]

\* C21 amended: the same, for a diff text that is not blank in the second
\* part; a diff of blank context lines only is refused as an empty diff.
C21_IndependentOfOriginalNonBlank ==
    PairDone =>
        /\ SameOutcome
        /\ (BodyOnlyKept(pure.in.diff) /\ ~is_blank(Flatten(pure.in.diff))) =>
              pure.out[1] = [ok |-> TRUE, lines |-> texts(body(pure.in.diff))]

\* Two different original contents and a hunk of a context line and an
\* insertion line: both outcomes are the two lines.
C21_Witness ==
    /\ PairDone /\ pure.in.old[1] # pure.in.old[2] /\ pure.in.old[1] # <<>>
    /\ pure.in.diff = <<HunkLine, ContextC, InsertN>>
    /\ pure.out[2].lines = <<<<"c", "\n">>, <<"n", "\n">>>>

(***************************************************************************)
(* edit.apply and edit.suggest with diff texts that _patch refuses and     *)
(* diff texts that it takes                                                *)
(***************************************************************************)
EditDiffInputs ==
    {<<>>, <<" ", "\n">>, <<"\t">>, DeleteO, InsertN, HunkLine \o DeleteO}

NextEdit ==
    \/ EditApply(RelInputs, EditDiffInputs)
    \/ EditSuggest(RelInputs, EditDiffInputs)
    \/ Execute
    \/ Return
    \/ Tick

SpecEdit == Init /\ [][NextEdit]_vars

\* The diff text is empty or whitespace only, or nothing of it is kept and
\* it has no hunk marker.
Unparseable(d) ==
    \/ d = <<>>
    \/ \A i \in 1..Len(d) : d[i] \in Whitespace
    \/ FirstHunk(readlines(d), 1) = 0 /\ rebuild(readlines(d)) = <<>>

\* The target of the call is a path under the root that is not a directory.
EditableTarget ==
    LET target == resolve(joinpath(project_root, last.args.rel))
    IN  IsUnder(target, project_root) /\ ~is_dir(fs, target)

\* C22: an edit.apply whose diff text is empty, whitespace only or cannot be
\* parsed fails and leaves the file system as it was: the target is not
\* changed or created and no backup is made; for a target that can be
\* edited the failure is ParseError.
C22_UnparseableDiffChangesNothing ==
    [][(Executes({"edit.apply"}) /\ Unparseable(last.args.diff)) =>
          /\ ~last'.res.ok
          /\ fs' = fs
          /\ EditableTarget => last'.res.err = "ParseError"]_vars

\* A whitespace-only diff text for an existing file has been refused with
\* ParseError, the file holds what it held.
C22_Witness ==
    /\ Done /\ last.kind = "edit.apply" /\ last.args.diff = <<" ", "\n">>
    /\ last.args.rel = RelA /\ last.res.err = "ParseError"
    /\ fs[PathA] = InitialTree[PathA]

\* C23: a backup file, once created, is there after every later step with
\* the content it was created with.
C23_BackupsImmutable ==
    [][\A q \in BackupsIn(fs) : q \in DOMAIN fs' /\ fs'[q] = fs[q]]_vars

\* C24: an fs.read has read at most max_read_bytes bytes from the file,
\* whatever its start and length arguments.
C24_ReadAtMostMaxBytes ==
    (Done /\ last.kind = "fs.read") =>
        \A i \in StepIndex :
            last.steps[i].op = "open_r" => Len(last.steps[i].data) <= cfg.max_read_bytes

(***************************************************************************)
(* The reader threads alone are fair: no caller is assumed ever to read    *)
(***************************************************************************)
SpecPumpLive ==
    Init /\ [][NextTermOne]_vars /\ \A p \in 1..MaxCalls : WF_vars(PumpOf(p))

\* The lines of subprocess p that have reached the queue so far
Buffered(p) == Len(term.procs[p].emitted) - Len(term.procs[p].out)

\* C25: whenever a subprocess has emitted a line that is not in the queue
\* yet, the step of its reader thread is enabled, however many lines the
\* queue holds; and with the reader threads fair, the k-th emitted line of
\* every subprocess gets into the queue.
C25_ReaderNeverBlocked ==
    /\ [](\A p \in 1..MaxCalls :
            (p <= Len(term.procs) /\ term.procs[p].out # <<>>) => ENABLED PumpOf(p))
    /\ \A p \in 1..MaxCalls, k \in 1..MaxCalls :
          (p <= Len(term.procs) /\ Len(term.procs[p].emitted) >= k)
              ~> (p <= Len(term.procs) /\ Buffered(p) >= k)

\* Two lines are in the queue of a session that no read has drained, and
\* its subprocess is still running.
C25_Witness ==
    \E p \in Procs :
        /\ Len(term.procs[p].q) >= 2 /\ term.procs[p].got = <<>>
        /\ term.procs[p].alive /\ ctx[1].res.op # "read"

(***************************************************************************)
(* fs.move, fs.delete and fs.create_dir on a tree with a denied file in a  *)
(* subdirectory, with the root itself and absent directories as arguments  *)
(***************************************************************************)
RelDot == <<".">>
RelNew == <<"n", "/", "x">>    \* in a directory that does not exist

OpsRels == RelInputs \cup {RelDot}
OpsDsts == DstInputs \cup {RelNew}

\* InitialTree with d/.env, which the policy rejects, and d/k
OpsTree ==
    [q \in DOMAIN InitialTree \cup {Append(PathDir, <<".", "e", "n", "v">>),
                                    Append(PathDir, <<"k">>)} |->
        IF q \in DOMAIN InitialTree THEN InitialTree[q]
        ELSE IF q = Append(PathDir, <<"k">>) THEN File(<<"k">>) ELSE File(<<"s">>)]

InitOps ==
    /\ cfg = [max_read_bytes |-> MaxRead, allow_shell |-> TRUE]
    /\ fs = OpsTree
    /\ now = 0
    /\ nops = 0
    /\ last = Idle
    /\ pure = [op |-> "", in |-> <<>>, out |-> <<>>]
    /\ names = <<>> /\ inode = <<>> /\ wr = <<>> /\ prior = Absent
    /\ term = NoTerm /\ ctx = [c \in Contexts |-> IdleCtx]

NextOps ==
    \/ FsMove(OpsRels, OpsDsts)
    \/ FsDelete(OpsRels)
    \/ FsCreateDir(OpsRels)
    \/ Execute
    \/ Return

SpecOps == InitOps /\ [][NextOps]_vars

\* C26: an fs.move that fails because an endpoint is refused by the jail or
\* by the policy, or because the source does not exist, leaves the file
\* system as it was.
C26_FailedMoveChangesNothing ==
    [][(Executes({"fs.move"})
          /\ last'.res.err \in {"PathEscape", "PermissionDenied", "NotFound"})
          => fs' = fs]_vars

\* The files at or below directory d that the policy rejects
DeniedUnder(f, d) ==
    {q \in DOMAIN f : is_file(f, q) /\ IsUnder(q, d) /\ ~_allowed(q)}

\* C30: an fs.delete or fs.move on a directory leaves every file under it
\* that the policy rejects at its path with its content.
C30_DeniedDescendantsKept ==
    [][(Executes({"fs.delete", "fs.move"}) /\ is_dir(fs, TargetOf(last.args.rel)))
          => \A q \in DeniedUnder(fs, TargetOf(last.args.rel)) :
                q \in DOMAIN fs' /\ fs'[q] = fs[q]]_vars

\* C29: a successful fs.write or edit.apply on p leaves every other file
\* that was in the project tree, outside the backup directory, at its path
\* with its content.
C29_WriteFrame ==
    [][(Executes({"fs.write", "edit.apply"}) /\ last'.res.ok)
          => \A q \in DOMAIN fs :
                (/\ is_file(fs, q)
                 /\ IsUnder(q, project_root)
                 /\ ~IsUnder(q, backup_dir)
                 /\ q # TargetOf(last.args.rel))
                    => q \in DOMAIN fs' /\ fs'[q] = fs[q]]_vars

\* The diff without its hunk-marker lines
is_marker(l) == startswith(l, <<"@", "@">>)
unmarked(ls) == SelectSeq(ls, LAMBDA l : ~is_marker(l))

\* C27: for a diff whose first line is a hunk marker and whose other lines
\* are not blank text, _patch gives the same outcome with the hunk-marker
\* lines removed.
C27_MarkersDoNotMatter ==
    (/\ pure.op = "patch"
     /\ pure.in # <<>>
     /\ is_marker(Head(pure.in))
     /\ ~is_blank(Flatten(unmarked(pure.in))))
        => pure.out = _patch(<<>>, Flatten(unmarked(pure.in)))

(***************************************************************************)
(* Session operations under a configuration with allow_shell = False       *)
(***************************************************************************)
InitNoShell ==
    /\ cfg = [max_read_bytes |-> MaxRead, allow_shell |-> FALSE]
    /\ fs = InitialTree
    /\ now = 0
    /\ nops = 0
    /\ last = Idle
    /\ pure = [op |-> "", in |-> <<>>, out |-> <<>>]
    /\ names = <<>> /\ inode = <<>> /\ wr = <<>> /\ prior = Absent
    /\ term = NoTerm /\ ctx = [c \in Contexts |-> IdleCtx]

NextNoShell ==
    \/ DispatchTermOpen(SessionIds)
    \/ DispatchTermExec(SessionIds, CmdInputs)
    \/ DispatchTermRead(SessionIds)
    \/ Execute
    \/ Return
    \/ ProcRun
    \/ ProcExit
    \/ Pump

SpecNoShell == InitNoShell /\ [][NextNoShell]_vars

\* C28: with allow_shell = False no subprocess is spawned and the session
\* table is empty, whatever term.open, term.exec and term.read calls have
\* been made.
C28_NoShellNoSubprocess ==
    ~cfg.allow_shell => (term.procs = <<>> /\ term.sessions = <<>>)

====
